---- MODULE Spec2Model ----
(***************************************************************************)
(* Model of the FQuake3 launcher, src/C/FQuake3/main.c.                    *)
(*                                                                         *)
(* main is a straight-line program; every statement of main is one action  *)
(* and pc names the source line of the statement that runs next.  The      *)
(* calls main makes into GLib (the g_option_context functions) and the     *)
(* hosting library (the m_ functions) are recorded in the call log.         *)
(* g_option_context_parse is modelled by what GLib's parser does with the  *)
(* option table of main.c: long options only, help enabled, unknown        *)
(* options rejected, consumed arguments removed from argv.                 *)
(***************************************************************************)
EXTENDS Integers, Sequences, FiniteSets, TLC

\* ------------------------------------------------------------------ bounds
\* Largest number of command-line arguments after the program name that
\* Init enumerates exhaustively.
MaxArgs == 3

\* ------------------------------------------------------- program constants
\* main.c:3-4, the initial values of the two globals.
DefaultMonoLib == "Mono\\lib"
DefaultMonoEtc == "Mono\\etc"

\* main.c:33 and main.c:50, the entry-module literal (written twice).
DomainEntryName == "Launcher.exe"
ExecEntryName == "Launcher.exe"

\* option_entries with the second entry's arg_data copied from the first.
option_entries_SameData ==
  << [long_name |-> "mono-lib", arg |-> "G_OPTION_ARG_STRING", arg_data |-> "mono_lib"],
     [long_name |-> "mono-etc", arg |-> "G_OPTION_ARG_STRING", arg_data |-> "mono_lib"] >>

\* main.c:6-11.  Both entries are G_OPTION_ARG_STRING with no short name and
\* no flags; arg_data names the global the parser stores into.
option_entries ==
  << [long_name |-> "mono-lib", arg |-> "G_OPTION_ARG_STRING", arg_data |-> "mono_lib"],
     [long_name |-> "mono-etc", arg |-> "G_OPTION_ARG_STRING", arg_data |-> "mono_etc"] >>

\* main.c:36-48, the names passed to m_load_assembly, statement by statement.
CoreAssembly == "FSharp.Core.dll"
UtilsAssembly == "FQuake3.Utils.dll"
EngineAssembly == "Engine.dll"
RendererAssembly == "Engine.Renderer.dll"
CGameAssembly == "CGame.dll"

\* ------------------------------------------------------ argument strings
\* argv[0].
ProgramName == "FQuake3.exe"

\* The argument strings of the model and their lexical shape as the parser
\* sees it: dashes = number of leading '-' the parser tests (0, 1 or 2; an
\* argument counts as an option only if something follows the first dash),
\* name = the text after the dashes up to '=' or the end, eq = an '=' is
\* present, val = the text after '='.
ArgTable ==
  { [text |-> "--mono-lib",   dashes |-> 2, name |-> "mono-lib", eq |-> FALSE, val |-> ""],
    [text |-> "--mono-etc",   dashes |-> 2, name |-> "mono-etc", eq |-> FALSE, val |-> ""],
    [text |-> "--mono-lib=X", dashes |-> 2, name |-> "mono-lib", eq |-> TRUE,  val |-> "X"],
    [text |-> "--bogus",      dashes |-> 2, name |-> "bogus",    eq |-> FALSE, val |-> ""],
    [text |-> "--help",       dashes |-> 2, name |-> "help",     eq |-> FALSE, val |-> ""],
    [text |-> "--",           dashes |-> 2, name |-> "",         eq |-> FALSE, val |-> ""],
    [text |-> "-x",           dashes |-> 1, name |-> "x",        eq |-> FALSE, val |-> ""],
    [text |-> "foo",          dashes |-> 0, name |-> "foo",      eq |-> FALSE, val |-> ""],
    [text |-> "bar",          dashes |-> 0, name |-> "bar",      eq |-> FALSE, val |-> ""],
    [text |-> "Custom\\lib",  dashes |-> 0, name |-> "Custom\\lib", eq |-> FALSE, val |-> ""],
    [text |-> "Custom\\etc",  dashes |-> 0, name |-> "Custom\\etc", eq |-> FALSE, val |-> ""] }

Lex(s) == CHOOSE r \in ArgTable : r.text = s

\* The arguments Init enumerates in every combination up to MaxArgs.
Alphabet ==
  { "--mono-lib", "--mono-etc", "--mono-lib=X", "--bogus", "--help", "--",
    "-x", "foo", "Custom\\lib" }

\* Longer invocations taken from the documentation, added to the enumeration.
ExampleArgs ==
  { << "--mono-lib", "Custom\\lib", "--mono-etc", "Custom\\etc", "foo", "bar" >> }

RECURSIVE SeqsUpTo(_)
SeqsUpTo(n) ==
  IF n = 0 THEN { << >> }
  ELSE LET shorter == SeqsUpTo(n - 1)
       IN  shorter \cup { Append(s, a) : s \in { t \in shorter : Len(t) = n - 1 }, a \in Alphabet }

Invocations == { << ProgramName >> \o s : s \in SeqsUpTo(MaxArgs) \cup ExampleArgs }

\* --------------------------------------------- g_option_context_parse
\* The context main builds: g_option_context_new enables --help and leaves
\* ignore_unknown_options off; add_main_entries installs option_entries.
NewOptionContext ==
  [state |-> "live", main_entries |-> << >>, help_enabled |-> TRUE, ignore_unknown |-> FALSE]

\* No context yet, and a context after g_option_context_free.
NoOptionContext == [NewOptionContext EXCEPT !.state = "none"]

\* A GError pointer: NULL, or the error the parser allocated.
NoError == [set |-> FALSE, code |-> "", message |-> ""]

\* The value of the local `domain` before line 33 assigns it.
UninitDomain == [lib |-> "uninit", etc |-> "uninit", entry |-> "uninit"]

\* The first entry of the main group whose long name the argument spells
\* (the text before '=' or the whole text), 0 if there is none.
FindEntry(entries, a) ==
  LET hits == { j \in 1..Len(entries) : entries[j].long_name = a.name }
  IN  IF hits = {} THEN 0 ELSE CHOOSE j \in hits : \A k \in hits : j <= k

\* parse_arg for G_OPTION_ARG_STRING: a copy of the value (converted from the
\* locale's encoding, which leaves the ASCII strings of ArgTable as they are)
\* is stored through arg_data, replacing whatever an earlier occurrence
\* stored.
ParseArg(st, entry, optText, value, at) ==
  [st EXCEPT !.g = [@ EXCEPT ![entry.arg_data] = value],
             !.writes = Append(@, [data |-> entry.arg_data, opt |-> optText,
                                   val |-> value, at |-> at, kind |-> "store"])]

\* The failure exit of the parser: every global a store changed gets its
\* value from before the parse back, argv is left as it was, error is set.
ParseFail(argv, st, g0, code, msg) ==
  LET touched == { st.writes[k].data : k \in 1..Len(st.writes) }
      restores == [d \in touched |-> [data |-> d, opt |-> "", val |-> g0[d], at |-> 0, kind |-> "restore"]]
      order == << "mono_lib", "mono_etc" >>
      seqOf == SelectSeq(order, LAMBDA d : d \in touched)
  IN  [ret |-> "FALSE", argv |-> argv, g |-> g0,
       writes |-> st.writes \o [k \in 1..Len(seqOf) |-> restores[seqOf[k]]],
       error |-> [set |-> TRUE, code |-> code, message |-> msg]]

\* The success exit: the pending NULLs are applied and argv is compacted;
\* a "--" separator is dropped too unless sep was reset to 0.
ParseDone(argv, st) ==
  LET nulls == st.nulls \cup (IF st.sep > 0 THEN { st.sep } ELSE {})
      keep == { k \in 1..Len(argv) : k \notin nulls }
      RECURSIVE Compact(_)
      Compact(k) == IF k > Len(argv) THEN << >>
                    ELSE (IF k \in keep THEN << argv[k] >> ELSE << >>) \o Compact(k + 1)
  IN  [ret |-> "TRUE", argv |-> Compact(1), g |-> st.g, writes |-> st.writes, error |-> NoError]

\* The help exit: print_help writes the usage text and calls exit(0).
ParseHelp(argv, st) ==
  [ret |-> "exit", argv |-> argv, g |-> st.g, writes |-> st.writes, error |-> NoError]

\* The parser's loop over argv[1..argc-1] (argv[2..] here, sequences being
\* 1-based).  st.i is the loop index, st.stop is stop_parsing, st.sep is
\* separator_pos, st.nulls the positions queued by add_pending_null.
RECURSIVE ParseLoop(_, _, _, _)
ParseLoop(ctx, argv, g0, st) ==
  IF st.i > Len(argv) THEN ParseDone(argv, st)
  ELSE
    LET a == Lex(argv[st.i])
        j == FindEntry(ctx.main_entries, a)
    IN
    IF a.dashes >= 1 /\ ~st.stop THEN
      IF a.dashes = 2 THEN
        IF a.name = "" /\ ~a.eq THEN
          \* "--" ends option parsing
          ParseLoop(ctx, argv, g0, [st EXCEPT !.i = @ + 1, !.sep = st.i, !.stop = TRUE])
        ELSE IF ctx.help_enabled /\ a.name = "help" /\ ~a.eq THEN
          ParseHelp(argv, st)
        ELSE IF j # 0 THEN
          \* parse_long_option
          IF a.eq THEN
            ParseLoop(ctx, argv, g0,
              [ParseArg(st, ctx.main_entries[j], "--" \o ctx.main_entries[j].long_name, a.val, st.i)
                 EXCEPT !.i = @ + 1, !.nulls = @ \cup { st.i }])
          ELSE IF st.i < Len(argv) THEN
            ParseLoop(ctx, argv, g0,
              [ParseArg(st, ctx.main_entries[j], "--" \o ctx.main_entries[j].long_name, argv[st.i + 1], st.i)
                 EXCEPT !.i = @ + 2, !.nulls = @ \cup { st.i, st.i + 1 }])
          ELSE
            ParseFail(argv, st, g0, "G_OPTION_ERROR_BAD_VALUE",
                      "Missing argument for " \o "--" \o ctx.main_entries[j].long_name)
        ELSE IF ctx.ignore_unknown THEN
          ParseLoop(ctx, argv, g0, [st EXCEPT !.i = @ + 1])
        ELSE
          ParseFail(argv, st, g0, "G_OPTION_ERROR_UNKNOWN_OPTION", "Unknown option " \o argv[st.i])
      ELSE
        \* a short option: no entry has a short name; 'h' and '?' ask for help
        IF ctx.help_enabled /\ a.name \in { "h", "?" } THEN ParseHelp(argv, st)
        ELSE IF ctx.ignore_unknown THEN ParseLoop(ctx, argv, g0, [st EXCEPT !.i = @ + 1])
        ELSE ParseFail(argv, st, g0, "G_OPTION_ERROR_UNKNOWN_OPTION", "Unknown option " \o argv[st.i])
    ELSE
      \* not an option: no G_OPTION_REMAINING entry collects it, so it stays;
      \* after "--" an argument that begins with '-' keeps the separator
      ParseLoop(ctx, argv, g0,
        [st EXCEPT !.i = @ + 1,
                   !.sep = IF a.dashes >= 1 THEN 0 ELSE @])

g_option_context_parse(ctx, argv, g0) ==
  ParseLoop(ctx, argv, g0,
            [i |-> 2, stop |-> FALSE, sep |-> 0, nulls |-> {}, g |-> g0, writes |-> << >>])

\* ------------------------------------------------------------- the state
VARIABLES
  pc,              \* the line of main.c whose statement runs next
  argv0,           \* the argument vector the process was started with
  argc, argv,      \* main's parameters, rewritten in place by the parser
  mono_lib,        \* main.c:3
  mono_etc,        \* main.c:4
  option_context,  \* main.c:21: the context, its state "none", "live" or "freed"
  error,           \* main.c:22: NULL (NoError) or the GError the parser allocated
  domain,          \* main.c:23: uninitialised until line 33 assigns it
  domain_state,    \* the hosting library's domain: "none", "created", "freed"
  first_failure,   \* the first hosting call that reported failure, or "none"
  parse_ret,       \* what g_option_context_parse did: "none", "TRUE", "FALSE", "exit"
  writes,          \* every store the parser made through an arg_data pointer
  calls,           \* the calls main made into GLib and the hosting library
  stdout,          \* what the process printed
  exit_status      \* the process exit status, "none" while running

vars == << pc, argv0, argc, argv, mono_lib, mono_etc, option_context, error, domain,
           domain_state, first_failure, parse_ret, writes, calls, stdout, exit_status >>

\* The outcomes a hosting-library call can have; main looks at none of them.
HostOutcomes == { "ok", "failed" }

Call(fn, args) == Append(calls, [fn |-> fn, args |-> args])

NoteFailure(what, r) ==
  IF first_failure = "none" /\ r = "failed" THEN what ELSE first_failure

Init ==
  /\ pc = "l21"
  /\ argv0 \in Invocations
  /\ argv = argv0
  /\ argc = Len(argv0)
  /\ mono_lib = DefaultMonoLib
  /\ mono_etc = DefaultMonoEtc
  /\ option_context = NoOptionContext
  /\ error = NoError
  /\ domain = UninitDomain
  /\ domain_state = "none"
  /\ first_failure = "none"
  /\ parse_ret = "none"
  /\ writes = << >>
  /\ calls = << >>
  /\ stdout = << >>
  /\ exit_status = "none"

\* main.c:21-23
ContextNew ==
  /\ pc = "l21"
  /\ option_context' = NewOptionContext
  /\ error' = NoError
  /\ calls' = Call("g_option_context_new", << "- options for mono" >>)
  /\ pc' = "l25"
  /\ UNCHANGED << argv0, argc, argv, mono_lib, mono_etc, domain, domain_state,
                  first_failure, parse_ret, writes, stdout, exit_status >>

\* main.c:25
AddMainEntries ==
  /\ pc = "l25"
  /\ option_context' = [option_context EXCEPT !.main_entries = option_entries]
  /\ calls' = Call("g_option_context_add_main_entries", << >>)
  /\ pc' = "l27"
  /\ UNCHANGED << argv0, argc, argv, mono_lib, mono_etc, error, domain, domain_state,
                  first_failure, parse_ret, writes, stdout, exit_status >>

\* main.c:27, the call and the test of its result
Parse ==
  /\ pc = "l27"
  /\ LET r == g_option_context_parse(option_context, argv,
                                     [mono_lib |-> mono_lib, mono_etc |-> mono_etc])
     IN  /\ parse_ret' = r.ret
         /\ argv' = r.argv
         /\ argc' = Len(r.argv)
         /\ mono_lib' = r.g.mono_lib
         /\ mono_etc' = r.g.mono_etc
         /\ writes' = writes \o r.writes
         /\ error' = r.error
         /\ calls' = Call("g_option_context_parse", << argv >>)
         /\ IF r.ret = "exit"
              THEN /\ pc' = "exited"
                   /\ stdout' = Append(stdout, << "Usage:" >>)
                   /\ exit_status' = 0
              ELSE /\ pc' = IF r.ret = "TRUE" THEN "l33" ELSE "l29"
                   /\ UNCHANGED << stdout, exit_status >>
  /\ UNCHANGED << argv0, option_context, domain, domain_state, first_failure >>

\* main.c:29
PrintInvalidOption ==
  /\ pc = "l29"
  /\ stdout' = Append(stdout, << "Invalid option: ", error.message, "\n" >>)
  /\ calls' = Call("g_print", << "Invalid option: %s\n", error.message >>)
  /\ pc' = "l30"
  /\ UNCHANGED << argv0, argc, argv, mono_lib, mono_etc, option_context, error, domain,
                  domain_state, first_failure, parse_ret, writes, exit_status >>

\* ReturnFailure without the return: control falls through to line 33.
ReturnFailure_FallThrough ==
  /\ pc = "l30"
  /\ pc' = "l33"
  /\ UNCHANGED << argv0, argc, argv, mono_lib, mono_etc, option_context, error, domain,
                  domain_state, first_failure, parse_ret, writes, calls, stdout, exit_status >>

\* main.c:30
ReturnFailure ==
  /\ pc = "l30"
  /\ exit_status' = 1
  /\ pc' = "done"
  /\ UNCHANGED << argv0, argc, argv, mono_lib, mono_etc, option_context, error, domain,
                  domain_state, first_failure, parse_ret, writes, calls, stdout >>

\* DomainNew that checks the outcome and gives up with status 1 on failure.
DomainNew_Checked ==
  /\ pc = "l33"
  /\ \E r \in HostOutcomes :
       /\ first_failure' = NoteFailure("m_domain_new", r)
       /\ pc' = IF r = "failed" THEN "done" ELSE "l36"
       /\ exit_status' = IF r = "failed" THEN 1 ELSE exit_status
  /\ domain' = [lib |-> mono_lib, etc |-> mono_etc, entry |-> DomainEntryName]
  /\ domain_state' = "created"
  /\ calls' = Call("m_domain_new", << mono_lib, mono_etc, DomainEntryName >>)
  /\ UNCHANGED << argv0, argc, argv, mono_lib, mono_etc, option_context, error,
                  parse_ret, writes, stdout >>

\* DomainNew with its two path arguments in the wrong order.
DomainNew_SwappedPaths ==
  /\ pc = "l33"
  /\ \E r \in HostOutcomes :
       first_failure' = NoteFailure("m_domain_new", r)
  /\ domain' = [lib |-> mono_etc, etc |-> mono_lib, entry |-> DomainEntryName]
  /\ domain_state' = "created"
  /\ calls' = Call("m_domain_new", << mono_etc, mono_lib, DomainEntryName >>)
  /\ pc' = "l36"
  /\ UNCHANGED << argv0, argc, argv, mono_lib, mono_etc, option_context, error,
                  parse_ret, writes, stdout, exit_status >>

\* main.c:33
DomainNew ==
  /\ pc = "l33"
  /\ \E r \in HostOutcomes :
       first_failure' = NoteFailure("m_domain_new", r)
  /\ domain' = [lib |-> mono_lib, etc |-> mono_etc, entry |-> DomainEntryName]
  /\ domain_state' = "created"
  /\ calls' = Call("m_domain_new", << mono_lib, mono_etc, DomainEntryName >>)
  /\ pc' = "l36"
  /\ UNCHANGED << argv0, argc, argv, mono_lib, mono_etc, option_context, error,
                  parse_ret, writes, stdout, exit_status >>

\* One m_load_assembly statement: the call at line `at`, then on to `next`.
LoadAssembly(at, name, next) ==
  /\ pc = at
  /\ \E r \in HostOutcomes :
       first_failure' = NoteFailure(name, r)
  /\ calls' = Call("m_load_assembly", << name >>)
  /\ pc' = next
  /\ UNCHANGED << argv0, argc, argv, mono_lib, mono_etc, option_context, error, domain,
                  domain_state, parse_ret, writes, stdout, exit_status >>

\* main.c:36
LoadCore == LoadAssembly("l36", CoreAssembly, "l39")

\* main.c:39
LoadUtils == LoadAssembly("l39", UtilsAssembly, "l42")

\* LoadEngine with the name of the statement below it pasted in.
LoadEngine_WrongName == LoadAssembly("l42", RendererAssembly, "l45")

\* main.c:42
LoadEngine == LoadAssembly("l42", EngineAssembly, "l45")

\* main.c:45
LoadRenderer == LoadAssembly("l45", RendererAssembly, "l48")

\* main.c:48
LoadCGame == LoadAssembly("l48", CGameAssembly, "l50")

\* DomainExec passing the argument count the process was started with.
DomainExec_StaleArgc ==
  /\ pc = "l50"
  /\ \E r \in HostOutcomes :
       first_failure' = NoteFailure("m_domain_exec", r)
  /\ calls' = Call("m_domain_exec", << domain, ExecEntryName, Len(argv0), argv >>)
  /\ pc' = "l53"
  /\ UNCHANGED << argv0, argc, argv, mono_lib, mono_etc, option_context, error, domain,
                  domain_state, parse_ret, writes, stdout, exit_status >>

\* main.c:50
DomainExec ==
  /\ pc = "l50"
  /\ \E r \in HostOutcomes :
       first_failure' = NoteFailure("m_domain_exec", r)
  /\ calls' = Call("m_domain_exec", << domain, ExecEntryName, argc, argv >>)
  /\ pc' = "l53"
  /\ UNCHANGED << argv0, argc, argv, mono_lib, mono_etc, option_context, error, domain,
                  domain_state, parse_ret, writes, stdout, exit_status >>

\* DomainFree releasing the Domain only when no hosting call failed.
DomainFree_SkipOnFailure ==
  /\ pc = "l53"
  /\ IF first_failure = "none"
       THEN /\ domain_state' = "freed"
            /\ calls' = Call("m_domain_free", << domain >>)
       ELSE UNCHANGED << domain_state, calls >>
  /\ pc' = "l56"
  /\ UNCHANGED << argv0, argc, argv, mono_lib, mono_etc, option_context, error, domain,
                  first_failure, parse_ret, writes, stdout, exit_status >>

\* DomainFree that also puts lib-path back to its default.
DomainFree_ResetsPath ==
  /\ pc = "l53"
  /\ domain_state' = "freed"
  /\ mono_lib' = DefaultMonoLib
  /\ calls' = Call("m_domain_free", << domain >>)
  /\ pc' = "l56"
  /\ UNCHANGED << argv0, argc, argv, mono_etc, option_context, error, domain,
                  first_failure, parse_ret, writes, stdout, exit_status >>

\* DomainFree handed the wrong pointer: it releases the option context.
DomainFree_WrongHandle ==
  /\ pc = "l53"
  /\ option_context' = [option_context EXCEPT !.state = "freed"]
  /\ calls' = Call("g_option_context_free", << >>)
  /\ pc' = "l56"
  /\ UNCHANGED << argv0, argc, argv, mono_lib, mono_etc, error, domain, domain_state,
                  first_failure, parse_ret, writes, stdout, exit_status >>

\* main.c:53
DomainFree ==
  /\ pc = "l53"
  /\ domain_state' = "freed"
  /\ calls' = Call("m_domain_free", << domain >>)
  /\ pc' = "l56"
  /\ UNCHANGED << argv0, argc, argv, mono_lib, mono_etc, option_context, error, domain,
                  first_failure, parse_ret, writes, stdout, exit_status >>

\* main.c:56
ContextFree ==
  /\ pc = "l56"
  /\ option_context' = [option_context EXCEPT !.state = "freed"]
  /\ calls' = Call("g_option_context_free", << >>)
  /\ pc' = "l58"
  /\ UNCHANGED << argv0, argc, argv, mono_lib, mono_etc, error, domain, domain_state,
                  first_failure, parse_ret, writes, stdout, exit_status >>

\* main.c:58
ReturnSuccess ==
  /\ pc = "l58"
  /\ exit_status' = 0
  /\ pc' = "done"
  /\ UNCHANGED << argv0, argc, argv, mono_lib, mono_etc, option_context, error, domain,
                  domain_state, first_failure, parse_ret, writes, calls, stdout >>

Next ==
  \/ ContextNew
  \/ AddMainEntries
  \/ Parse
  \/ PrintInvalidOption
  \/ ReturnFailure
  \/ DomainNew
  \/ LoadCore
  \/ LoadUtils
  \/ LoadEngine
  \/ LoadRenderer
  \/ LoadCGame
  \/ DomainExec
  \/ DomainFree
  \/ ContextFree
  \/ ReturnSuccess

Spec == Init /\ [][Next]_vars

\* ------------------------------------------------- reading the call log
CallsOf(fn) == SelectSeq(calls, LAMBDA c : c.fn = fn)

CountCalls(fn) == Len(CallsOf(fn))

Called(fn) == CountCalls(fn) > 0

\* The names passed to m_load_assembly so far, in call order.
LoadedNames == [k \in 1..Len(CallsOf("m_load_assembly")) |-> CallsOf("m_load_assembly")[k].args[1]]

IsPrefix(s, t) == Len(s) <= Len(t) /\ \A k \in 1..Len(s) : s[k] = t[k]

Terminated == pc \in { "done", "exited" }

\* ------------------------------------------------------------------- C1
FiveAssemblies ==
  << "FSharp.Core.dll", "FQuake3.Utils.dll", "Engine.dll", "Engine.Renderer.dll", "CGame.dll" >>

\* C1: in every run in which option parsing succeeds m_load_assembly is
\* called exactly five times, with FSharp.Core.dll, FQuake3.Utils.dll,
\* Engine.dll, Engine.Renderer.dll, CGame.dll in this order: at every moment
\* the names loaded so far are a prefix of that list (so no other name and no
\* name twice), the list is complete when main returns after a successful
\* parse, and nothing is loaded unless the parse succeeded.
C1_LoadOrder ==
  /\ IsPrefix(LoadedNames, FiveAssemblies)
  /\ (pc = "done" /\ parse_ret = "TRUE") => LoadedNames = FiveAssemblies
  /\ parse_ret # "TRUE" => LoadedNames = << >>

C1_Witness == pc = "done" /\ parse_ret = "TRUE" /\ Len(LoadedNames) = 5

\* ------------------------------------------------------------------- C2
\* No call that creates, uses or releases the Domain follows its release.
NoDomainCallAfterFree ==
  \A i, k \in 1..Len(calls) :
    (i < k /\ calls[i].fn = "m_domain_free")
      => calls[k].fn \notin { "m_domain_new", "m_load_assembly", "m_domain_exec", "m_domain_free" }

\* C2: over a whole run the Domain is created at most once and released at
\* most once; a run that reached m_domain_exec has released it exactly once
\* when main returns, a run whose parse failed never releases (or creates)
\* it, and no load, exec or second release follows the release.
C2_DomainLifetime ==
  /\ CountCalls("m_domain_new") <= 1
  /\ CountCalls("m_domain_free") <= 1
  /\ (Terminated /\ Called("m_domain_exec")) => CountCalls("m_domain_free") = 1
  /\ parse_ret = "FALSE" => (CountCalls("m_domain_free") = 0 /\ CountCalls("m_domain_new") = 0)
  /\ CountCalls("m_domain_free") = 1 => domain_state = "freed"
  /\ NoDomainCallAfterFree

C2_Witness ==
  pc = "done" /\ Called("m_domain_exec") /\ CountCalls("m_domain_free") = 1
  /\ first_failure # "none"

\* ------------------------------------------------------------------- C3
\* The option names the argument spells is one of the table's.
Recognized(a) == a.dashes = 2 /\ a.name \in { "mono-lib", "mono-etc" }

AsksForHelp(a) ==
  \/ a.dashes = 2 /\ a.name = "help" /\ ~a.eq
  \/ a.dashes = 1 /\ a.name \in { "h", "?" }

\* The positions of the vector, from i on, that stand in option position:
\* arguments of option shape before the "--" terminator that are not the
\* value of the table option in front of them.
RECURSIVE OptionPositions(_, _)
OptionPositions(av, i) ==
  IF i > Len(av) THEN {}
  ELSE LET a == Lex(av[i])
       IN  IF av[i] = "--" THEN {}
           ELSE IF a.dashes = 0 THEN OptionPositions(av, i + 1)
           ELSE IF Recognized(a) /\ ~a.eq THEN { i } \cup OptionPositions(av, i + 2)
           ELSE { i } \cup OptionPositions(av, i + 1)

\* The argument vector contains, in option position, an unrecognized option
\* (neither a table entry nor a help option) or a malformed one (a table
\* option in last place with no value).
ContainsBadOption(av) ==
  \E i \in OptionPositions(av, 2) :
    LET a == Lex(av[i])
    IN  /\ ~AsksForHelp(a)
        /\ \/ ~Recognized(a)
           \/ Recognized(a) /\ ~a.eq /\ i = Len(av)

PrintedInvalidOption ==
  \E k \in 1..Len(stdout) : Len(stdout[k]) >= 1 /\ stdout[k][1] = "Invalid option: "

NoHostingCall ==
  /\ domain_state = "none"
  /\ domain = UninitDomain
  /\ \A k \in 1..Len(calls) :
       calls[k].fn \notin { "m_domain_new", "m_load_assembly", "m_domain_exec", "m_domain_free" }

\* The original statement of C3: whenever the argument vector contains an
\* unrecognized or malformed option, the run ends with the message printed
\* and status 1, and never creates a Domain, loads or executes.
C3_Original ==
  ContainsBadOption(argv0)
    => /\ NoHostingCall
       /\ Terminated => (exit_status = 1 /\ PrintedInvalidOption)

\* What a left-to-right reading of the options meets first: "bad" at an
\* unrecognized option or a table option without a value, "help" at a help
\* option, "ok" at the end of the vector or at the "--" terminator; an
\* argument taken as the value of a table option is not looked at.
RECURSIVE FirstEvent(_, _)
FirstEvent(av, i) ==
  IF i > Len(av) THEN "ok"
  ELSE LET a == Lex(av[i])
       IN  IF a.dashes = 0 THEN FirstEvent(av, i + 1)
           ELSE IF av[i] = "--" THEN "ok"
           ELSE IF AsksForHelp(a) THEN "help"
           ELSE IF ~Recognized(a) THEN "bad"
           ELSE IF a.eq THEN FirstEvent(av, i + 1)
           ELSE IF i < Len(av) THEN FirstEvent(av, i + 2)
           ELSE "bad"

\* C3 (amended): the parser reports an error when the first thing it meets
\* in option position, before any "--" terminator or help option, is an
\* unrecognized option or a table option with no value after it (a help
\* option met first ends the process with the usage text and status 0
\* instead); whenever the parser reports an error main prints a line that
\* starts "Invalid option: " and carries the parser's message, returns 1,
\* and makes no hosting call at all.
C3_ParseFailure ==
  /\ parse_ret # "none"
       => /\ FirstEvent(argv0, 2) = "bad" => parse_ret = "FALSE"
          /\ FirstEvent(argv0, 2) = "help" => (parse_ret = "exit" /\ exit_status = 0)
  /\ parse_ret = "FALSE"
       => /\ NoHostingCall
          /\ error.set
          /\ pc \in { "l29", "l30", "done" }
          /\ pc \in { "l30", "done" }
               => stdout = << << "Invalid option: ", error.message, "\n" >> >>
          /\ pc = "done" => exit_status = 1

C3_Witness ==
  pc = "done" /\ parse_ret = "FALSE" /\ exit_status = 1 /\ PrintedInvalidOption

\* ------------------------------------------------------------------- C4
\* C4: when main returns 1 the Domain was never acquired and nothing main
\* acquired before (the option-parsing context of line 21) is still held.
C4_NothingHeldOnFailure ==
  (pc = "done" /\ exit_status = 1)
    => /\ domain_state = "none"
       /\ option_context.state \in { "none", "freed" }

\* ------------------------------------------------------------------- C5
HostingCalls ==
  SelectSeq(calls, LAMBDA c : c.fn \in { "m_domain_new", "m_load_assembly", "m_domain_exec",
                                         "m_domain_free", "g_option_context_free" })

PhaseOrder ==
  << << "g_option_context_parse" >>,
     << "m_domain_new" >>,
     << "m_load_assembly", "FSharp.Core.dll" >>,
     << "m_load_assembly", "FQuake3.Utils.dll" >>,
     << "m_load_assembly", "Engine.dll" >>,
     << "m_load_assembly", "Engine.Renderer.dll" >>,
     << "m_load_assembly", "CGame.dll" >>,
     << "m_domain_exec", "Launcher.exe" >>,
     << "m_domain_free" >>,
     << "g_option_context_free" >> >>

Phase(c) ==
  IF c.fn = "m_load_assembly" THEN << c.fn, c.args[1] >>
  ELSE IF c.fn = "m_domain_exec" THEN << c.fn, c.args[2] >>
  ELSE << c.fn >>

\* The phases the run has gone through, in call order.
PhasesSoFar ==
  LET cs == SelectSeq(calls, LAMBDA c : \E k \in 1..Len(PhaseOrder) : PhaseOrder[k][1] = c.fn)
  IN  [k \in 1..Len(cs) |-> Phase(cs[k])]

\* C6: on every run whose parse succeeded the calls happen in the order
\* parse, Domain creation, the five loads, execution of Launcher.exe, release
\* of the Domain, release of the option context, one after the other: what
\* was called so far is always a prefix of that order (so no load before the
\* Domain exists, no execution before the fifth load, the context released
\* once and only after the Domain), and a run that returns 0 made them all.
C6_PhaseOrder ==
  /\ parse_ret = "TRUE" => IsPrefix(PhasesSoFar, PhaseOrder)
  /\ (pc = "done" /\ exit_status = 0) => PhasesSoFar = PhaseOrder
  /\ Called("m_load_assembly") => domain_state # "none"
  /\ option_context.state = "freed" => (domain_state = "freed" /\ CountCalls("g_option_context_free") = 1)

C6_Witness == pc = "done" /\ exit_status = 0 /\ Len(PhasesSoFar) = 10

\* ------------------------------------------------------------------- C7
\* The invocation supplies neither --mono-lib nor --mono-etc, in any form.
NoPathOption(av) == \A i \in 2..Len(av) : ~Recognized(Lex(av[i]))

\* C7: when the invocation supplies neither path option and the parse
\* succeeds, the Domain is created with ("Mono\lib", "Mono\etc",
\* "Launcher.exe") and m_domain_exec is given that Domain and the same entry
\* name "Launcher.exe".
C7_Defaults ==
  NoPathOption(argv0)
    => /\ Called("m_domain_new")
          => /\ CallsOf("m_domain_new")[1].args = << "Mono\\lib", "Mono\\etc", "Launcher.exe" >>
             /\ domain = [lib |-> "Mono\\lib", etc |-> "Mono\\etc", entry |-> "Launcher.exe"]
       /\ Called("m_domain_exec")
          => /\ CallsOf("m_domain_exec")[1].args[1] = domain
             /\ CallsOf("m_domain_exec")[1].args[2] = "Launcher.exe"
             /\ CallsOf("m_domain_exec")[1].args[2] = domain.entry
       /\ (parse_ret = "TRUE" /\ pc = "done") => Called("m_domain_exec")

C7_Witness ==
  /\ NoPathOption(argv0) /\ Len(argv0) = 3 /\ argv0[2] = "foo"
  /\ Called("m_domain_exec")

\* ------------------------------------------------------------------- C8
ExecCall == CallsOf("m_domain_exec")[1]

NewCall == CallsOf("m_domain_new")[1]

\* The original statement of C8: whatever else the vector holds, an option
\* --mono-lib=X in it makes X the lib-path the Domain is configured with, and
\* without a --mono-etc argument the etc-path stays the default.
C8_Original ==
  Called("m_domain_new")
    => /\ \A i \in OptionPositions(argv0, 2) :
            LET a == Lex(argv0[i])
            IN  (Recognized(a) /\ a.name = "mono-lib" /\ a.eq) => domain.lib = a.val
       /\ (\A i \in 2..Len(argv0) : Lex(argv0[i]).name # "mono-etc") => domain.etc = "Mono\\etc"

\* The value the last occurrence of --<name> gives, reading left to right up
\* to the "--" terminator and skipping the argument each table option takes
\* as its value; cur if there is no occurrence.
RECURSIVE LastValue(_, _, _, _)
LastValue(av, i, name, cur) ==
  IF i > Len(av) THEN cur
  ELSE LET a == Lex(av[i])
       IN  IF av[i] = "--" THEN cur
           ELSE IF ~Recognized(a) THEN LastValue(av, i + 1, name, cur)
           ELSE IF a.eq THEN LastValue(av, i + 1, name, IF a.name = name THEN a.val ELSE cur)
           ELSE IF i < Len(av)
                  THEN LastValue(av, i + 2, name, IF a.name = name THEN av[i + 1] ELSE cur)
                  ELSE cur

\* C8 (amended): after a successful parse lib-path is the value of the last
\* --mono-lib the parser consumed as an option (X for --mono-lib=X when no
\* later --mono-lib follows it; an occurrence after "--" or one taken as the
\* value of the option before it does not count), "Mono\lib" if there is
\* none; etc-path is decided the same way by --mono-etc alone, so --mono-lib
\* never affects it; the Domain is created with exactly these two values.
C8_LastOccurrenceWins ==
  /\ parse_ret = "TRUE"
       => /\ mono_lib = LastValue(argv0, 2, "mono-lib", "Mono\\lib")
          /\ mono_etc = LastValue(argv0, 2, "mono-etc", "Mono\\etc")
  /\ Called("m_domain_new")
       => /\ domain.lib = LastValue(argv0, 2, "mono-lib", "Mono\\lib")
          /\ domain.etc = LastValue(argv0, 2, "mono-etc", "Mono\\etc")
  /\ (\A i \in 2..Len(argv0) : Lex(argv0[i]).name # "mono-etc") => mono_etc = "Mono\\etc"

C8_Witness ==
  /\ argv0 = << ProgramName, "--mono-lib=X", "--mono-etc", "foo" >>
  /\ Called("m_domain_new")
  /\ domain.lib = "X" /\ domain.etc = "foo"

\* ------------------------------------------------------------------- C9
\* The arguments after argv[0] that are neither a table option nor the value
\* one takes, in their order; everything from the "--" terminator on stays.
RECURSIVE Unconsumed(_, _, _)
Unconsumed(av, i, stopped) ==
  IF i > Len(av) THEN << >>
  ELSE LET a == Lex(av[i])
       IN  IF stopped THEN << av[i] >> \o Unconsumed(av, i + 1, TRUE)
           ELSE IF av[i] = "--" THEN << av[i] >> \o Unconsumed(av, i + 1, TRUE)
           ELSE IF ~Recognized(a) THEN << av[i] >> \o Unconsumed(av, i + 1, FALSE)
           ELSE IF a.eq THEN Unconsumed(av, i + 1, FALSE)
           ELSE Unconsumed(av, i + 2, FALSE)

DocExample ==
  << ProgramName, "--mono-lib", "Custom\\lib", "--mono-etc", "Custom\\etc", "foo", "bar" >>

\* The original statement of C9, read either way (the vector written with or
\* without the program name): m_domain_exec receives exactly the arguments
\* left after the table options and their values were consumed, and a count
\* equal to the vector's length.
C9_Original ==
  Called("m_domain_exec")
    => /\ \/ ExecCall.args[4] = Unconsumed(argv0, 2, FALSE)
          \/ ExecCall.args[4] = << argv0[1] >> \o Unconsumed(argv0, 2, FALSE)
       /\ ExecCall.args[3] = Len(ExecCall.args[4])

\* The first "--" of a vector removed, unless an argument after it begins
\* with '-'.
DropSeparator(u) ==
  LET seps == { k \in 1..Len(u) : u[k] = "--" }
  IN  IF seps = {} THEN u
      ELSE LET k == CHOOSE x \in seps : \A y \in seps : x <= y
           IN  IF \E m \in (k + 1)..Len(u) : Lex(u[m]).dashes >= 1 THEN u
               ELSE SubSeq(u, 1, k - 1) \o SubSeq(u, k + 1, Len(u))

\* C9 (amended): after a successful parse m_domain_exec receives argv[0]
\* followed by the arguments left after the table options and their values
\* were consumed, in their order, minus the "--" terminator (which the
\* parser removes too unless an argument after it begins with '-'), and a
\* count equal to that vector's length; for the documented example the
\* Domain is created with ("Custom\lib", "Custom\etc", "Launcher.exe") and
\* execution receives [argv[0], "foo", "bar"] with count 3.
C9_ExecArguments ==
  Called("m_domain_exec")
    => /\ ExecCall.args[4] = << argv0[1] >> \o DropSeparator(Unconsumed(argv0, 2, FALSE))
       /\ ExecCall.args[3] = Len(ExecCall.args[4])
       /\ ExecCall.args[4] = argv
       /\ argv0 = DocExample
            => /\ NewCall.args = << "Custom\\lib", "Custom\\etc", "Launcher.exe" >>
               /\ ExecCall.args[4] = << ProgramName, "foo", "bar" >>
               /\ ExecCall.args[3] = 3

C9_Witness == argv0 = DocExample /\ Called("m_domain_exec")

\* ------------------------------------------------------------------ C10
WritesTo(d, kind) ==
  Cardinality({ k \in 1..Len(writes) : writes[k].data = d /\ writes[k].kind = kind })

\* How many arguments of the vector spell the option --<name>.
Occurrences(av, name) ==
  Cardinality({ i \in 2..Len(av) : Recognized(Lex(av[i])) /\ Lex(av[i]).name = name })

\* The original statement of C10, as far as a state shows it: each of the
\* two globals has been stored into at most once.
C10_Original ==
  /\ WritesTo("mono_lib", "store") <= 1
  /\ WritesTo("mono_etc", "store") <= 1

\* The two globals and the store log change only in the parse of line 27,
\* while no Domain exists.
PathsChangeOnlyInParse ==
  (mono_lib' # mono_lib \/ mono_etc' # mono_etc \/ writes' # writes)
    => (pc = "l27" /\ pc' # "l27" /\ domain_state = "none")

StoresMatchOccurrences ==
  /\ WritesTo("mono_lib", "store") <= Occurrences(argv0, "mono-lib")
  /\ WritesTo("mono_etc", "store") <= Occurrences(argv0, "mono-etc")
  /\ \A k \in 1..Len(writes) :
       writes[k].kind = "store"
         => << writes[k].opt, writes[k].data >> \in { << "--mono-lib", "mono_lib" >>,
                                                     << "--mono-etc", "mono_etc" >> }
  /\ \A d \in { "mono_lib", "mono_etc" } :
       /\ WritesTo(d, "restore") <= 1
       /\ WritesTo(d, "restore") = 1 => (parse_ret = "FALSE" /\ WritesTo(d, "store") >= 1)
  /\ domain_state # "none" => (domain.lib = mono_lib /\ domain.etc = mono_etc)

\* C10 (amended): lib-path and etc-path are written only by the option
\* parser, once for each occurrence of their own option that it consumes (so
\* more than once when the option is repeated; a parse that then fails puts
\* the earlier value back once), and only before the Domain is created; no
\* step from Domain creation to process exit modifies either.
C10_WrittenOnlyByParser == [] StoresMatchOccurrences /\ [][PathsChangeOnlyInParse]_vars

C10_Witness ==
  /\ WritesTo("mono_lib", "store") = 2
  /\ pc = "done" /\ exit_status = 0
  /\ mono_lib # "Mono\\lib"

====
